---- MODULE Spec2Model ----
(***************************************************************************)
(* The WaggleDanceMachine orchestrator (planning, optimistic first task,   *)
(* root hook-up, scheduling loop) and the TaskExecutor class, as state     *)
(* machines.  One action is one synchronous stretch of JavaScript between  *)
(* two suspension points (await): the event loop runs such a stretch to    *)
(* completion, so completions of asynchronous units and calls of abort()   *)
(* interleave only where run() is suspended (awaiting the planner or       *)
(* sleep) or has ended.                                                    *)
(***************************************************************************)
EXTENDS Integers, Sequences, FiniteSets, Bags, TLC

VARIABLES
    pc,                       \* position of WaggleDanceMachine.run
    initDAG,                  \* run parameter: the graph supplied by the caller
    isDonePlanning,           \* the caller's done-planning flag
    dag,                      \* the local `dag` of run
    toDoNodes,                \* the local `toDoNodes` of run (node objects = indices into dag.nodes)
    completedTasks,           \* Set<string>
    taskResults,              \* Record<string, BaseResultType>
    optimisticFirstTaskState, \* { firstTaskState, taskId }
    firstTaskRun,             \* the promise of the inline startFirstTask
    aborted,                  \* abortSignal.aborted
    inFlight,                 \* units dispatched by the loop whose executeTask is pending
    packets,                  \* what sendChainPacket was called with (a bag)
    dispatched,               \* history: node objects handed to executeTask by the loop, in order
    completions,              \* history: node objects whose unit wrote completedTasks/taskResults
    plannerCalls,             \* history: number of calls of planTasks
    planGraph,                \* history: what planTasks resolved with (<<>> until then)
    fatalFailure,             \* history: an executeTask failure was of fatal severity
    tePc,                     \* position of TaskExecutor.startFirstTask
    teTask,                   \* its `task` argument
    teCompletedTasks,         \* TaskExecutor.completedTasks
    teAborted,                \* TaskExecutor.abortController.signal.aborted
    tePackets,                \* what injectAgentPacket was called with
    teResolved,               \* number of calls of resolveFirstTask
    teRejected,               \* number of calls of rejectFirstTask
    pkPc,                     \* position of the user of the packet functions
    pkPackets,                \* the packets of one task, in order
    pkStatuses,               \* mapPacketTypeToStatus of each of them
    pkFinish,                 \* findFinishPacket(pkPackets)
    pkType,                   \* an argument of mapPacketTypeToStatus
    pkStatus                  \* its result

runVars == <<pc, initDAG, isDonePlanning, dag, toDoNodes, completedTasks, taskResults,
             optimisticFirstTaskState, firstTaskRun, aborted, inFlight, packets,
             dispatched, completions, plannerCalls, planGraph, fatalFailure>>
teVars == <<tePc, teTask, teCompletedTasks, teAborted, tePackets, teResolved, teRejected>>
pkVars == <<pkPc, pkPackets, pkStatuses, pkFinish, pkType, pkStatus>>
vars == <<runVars, teVars, pkVars>>

-----------------------------------------------------------------------------
(* Bounds and constants *)

MaxNodes == 2

(* agentSettings["execute"].maxConcurrency as the caller of this run set it *)
ExecuteMaxConcurrency == 1

rootPlanId == 0

NoTask == -1

NodeIds == 1..MaxNodes

-----------------------------------------------------------------------------
(* Graph model *)

DAGEdgeClass(s, t) == [sId |-> s, tId |-> t]

EmptyDAG == [nodes |-> <<>>, edges |-> {}]

initialNodes == <<rootPlanId>>

initialEdges == {}

Range(s) == {s[i] : i \in 1..Len(s)}

isGoalReached_SomeNode(d, done) == \E i \in 1..Len(d.nodes) : d.nodes[i] \in done

isGoalReached(d, done) == \A i \in 1..Len(d.nodes) : d.nodes[i] \in done

findNodesWithNoIncomingEdges(d) ==
    LET nodesWithIncomingEdges == {e.tId : e \in d.edges}
    IN  SelectSeq(d.nodes, LAMBDA id : id \notin nodesWithIncomingEdges)

HookupRoot(g) ==
    LET noIncoming == findNodesWithNoIncomingEdges(g)
        hookupEdges == {DAGEdgeClass(rootPlanId, noIncoming[i]) : i \in 1..Len(noIncoming)}
    IN  [nodes |-> initialNodes \o g.nodes,
         edges |-> initialEdges \cup g.edges \cup hookupEdges]

-----------------------------------------------------------------------------
(* What the planner can return: node lists 1..k, possibly with one repeated
   id (the root's or a node's), and edges over all the ids, so that cycles,
   duplicate ids and edges to or from ids that are no node all occur. *)

Iota(k) == [i \in 1..k |-> i]

PlanNodeSeqs ==
    {Iota(k) : k \in 0..MaxNodes}
    \cup UNION {{Append(Iota(k), d) : d \in 0..k} : k \in 0..(MaxNodes - 1)}

PlanEdgeCandidates ==
    {DAGEdgeClass(i, j) : i \in NodeIds, j \in NodeIds} \ {DAGEdgeClass(i, i) : i \in NodeIds}

(* A plan whose last task is given itself as a dependency *)
SelfDependentPlan == [nodes |-> Iota(MaxNodes), edges |-> {DAGEdgeClass(MaxNodes, MaxNodes)}]

PlanGraphs ==
    {[nodes |-> ns, edges |-> es] : ns \in PlanNodeSeqs, es \in SUBSET PlanEdgeCandidates}
    \cup {SelfDependentPlan}

(* What a caller can supply as initDAG: nothing, a stored execution graph
   (a plan with the root hooked up), or nodes not yet connected by edges. *)
InitDAGs ==
    {EmptyDAG}
    \cup {HookupRoot(g) : g \in PlanGraphs}
    \cup {[nodes |-> Iota(k), edges |-> {}] : k \in 1..MaxNodes}

(* What a caller holds when planning was interrupted: nothing, or a graph
   of the partial plan *)
InterruptedDAGs == {EmptyDAG, HookupRoot([nodes |-> Iota(1), edges |-> {}])}

-----------------------------------------------------------------------------
(* Results of executeTask *)

Severities == {"warn", "human", "fatal"}

Truthy == "result"
Falsy == "empty"

Packet(n, t, s) == [node |-> n, type |-> t, severity |-> s]

AgentPacketFinishedTypes ==
    {"handleAgentEnd", "done", "error", "handleChainError", "handleLLMError",
     "handleRetrieverError", "handleAgentError"}

(* The packets executeTask can resolve with: a finish packet, an error one
   with one of the three severities *)
ResultPackets ==
    {[type |-> t, severity |-> "none"] : t \in AgentPacketFinishedTypes \ {"error"}}
    \cup {[type |-> "error", severity |-> sev] : sev \in {"warn", "human", "fatal"}}

-----------------------------------------------------------------------------
(* Scheduling loop helpers *)

IdOf(task) == dag.nodes[task]

pendingTasks == SelectSeq(toDoNodes, LAMBDA task : IdOf(task) \notin completedTasks)

IsCurrentDagLayerTask_IgnoreEdges(task) == TRUE

IsCurrentDagLayerTask(task) ==
    \A edge \in {e \in dag.edges : e.tId = IdOf(task)} : edge.sId \in completedTasks

pendingCurrentDagLayerTasks == SelectSeq(pendingTasks, IsCurrentDagLayerTask)

Splice(s, task) == SelectSeq(s, LAMBDA x : x # task)

DagAfterSplice_NodeTaken(task) == [dag EXCEPT !.nodes[task] = NoTask]

(* lines 228, 260: toDoNodes is a copy (Array.from) of dag.nodes, so the
   splice of toDoNodes leaves the graph as it is *)
DagAfterSplice(task) == dag

ClaimFirstTask_NoClaim(id) == completedTasks

ClaimFirstTask(id) == completedTasks \cup {id}

CompleteTask_Replace(id) == {id}

CompleteTask_Skip(id) == completedTasks

CompleteTask(id) == completedTasks \cup {id}

SignalAborted_NotChecked == FALSE

SignalAborted == aborted

NothingToDispatchYet_IgnoresFirstTask == Len(pendingTasks) = 0

(* lines 238-241 *)
NothingToDispatchYet ==
    Len(pendingTasks) = 0 \/ optimisticFirstTaskState.firstTaskState = "started"

Suspended == pc \in {"planning", "sleeping", "done", "planError", "aborted", "noTask", "deadlock"}

-----------------------------------------------------------------------------
(* WaggleDanceMachine.run *)

InitialCompletedTasks_Empty == {}

(* line 126: new Set([rootPlanId]) *)
InitialCompletedTasks == {rootPlanId}

InitRun ==
    /\ pc = "start"
    /\ \/ isDonePlanning = FALSE /\ initDAG \in InterruptedDAGs
       \/ isDonePlanning = TRUE /\ initDAG \in InitDAGs
    /\ dag = EmptyDAG
    /\ toDoNodes = <<>>
    /\ completedTasks = InitialCompletedTasks
    /\ taskResults = << >>
    /\ optimisticFirstTaskState = [firstTaskState |-> "not started", taskId |-> NoTask]
    /\ firstTaskRun = "none"
    /\ aborted = FALSE
    /\ inFlight = {}
    /\ packets = EmptyBag
    /\ dispatched = <<>>
    /\ completions = <<>>
    /\ plannerCalls = 0
    /\ planGraph = <<>>
    /\ fatalFailure = FALSE

IdleRun ==
    /\ pc = "idle"
    /\ isDonePlanning = FALSE
    /\ initDAG = EmptyDAG
    /\ dag = EmptyDAG
    /\ toDoNodes = <<>>
    /\ completedTasks = {rootPlanId}
    /\ taskResults = << >>
    /\ optimisticFirstTaskState = [firstTaskState |-> "not started", taskId |-> NoTask]
    /\ firstTaskRun = "none"
    /\ aborted = FALSE
    /\ inFlight = {}
    /\ packets = EmptyBag
    /\ dispatched = <<>>
    /\ completions = <<>>
    /\ plannerCalls = 0
    /\ planGraph = <<>>
    /\ fatalFailure = FALSE

DonePlanningBeforePlanner_Kept == isDonePlanning

(* line 191: setIsDonePlanning(false) *)
DonePlanningBeforePlanner == FALSE

(* line 187 *)
ShouldSkipPlanning == initDAG.edges # {} /\ isDonePlanning

(* lines 187-199: resume on a supplied graph, or call the planner *)
Start ==
    /\ pc = "start"
    /\ IF ShouldSkipPlanning
       THEN /\ dag' = initDAG
            /\ toDoNodes' = Iota(Len(initDAG.nodes))
            /\ pc' = "loop"
            /\ UNCHANGED <<isDonePlanning, plannerCalls>>
       ELSE /\ isDonePlanning' = DonePlanningBeforePlanner
            /\ plannerCalls' = plannerCalls + 1
            /\ pc' = "planning"
            /\ UNCHANGED <<dag, toDoNodes>>
    /\ UNCHANGED <<initDAG, completedTasks, taskResults, optimisticFirstTaskState,
                   firstTaskRun, aborted, inFlight, packets, dispatched, completions,
                   planGraph, fatalFailure>>
    /\ UNCHANGED <<teVars, pkVars>>

FirstTaskSignalAborted_NotChecked == FALSE

(* line 136 *)
FirstTaskSignalAborted == aborted

(* lines 130-136, 180-184: the planner calls startFirstTask for a node it
   found executable; the stretch up to the await of executeTask *)
StartFirstTask(id) ==
    /\ pc = "planning"
    /\ optimisticFirstTaskState.firstTaskState = "not started"
    /\ completedTasks' = ClaimFirstTask(id)
    /\ IF ~FirstTaskSignalAborted
       THEN /\ optimisticFirstTaskState' = [firstTaskState |-> "started", taskId |-> id]
            /\ firstTaskRun' = "executing"
       ELSE /\ optimisticFirstTaskState' = [firstTaskState |-> "error", taskId |-> id]
            /\ firstTaskRun' = "returned"
    /\ UNCHANGED <<pc, initDAG, isDonePlanning, dag, toDoNodes, taskResults, aborted,
                   inFlight, packets, dispatched, completions, plannerCalls, planGraph,
                   fatalFailure>>
    /\ UNCHANGED <<teVars, pkVars>>

(* lines 164-179: executeTask of the first task resolved *)
FirstTaskResolves(result) ==
    /\ Suspended
    /\ firstTaskRun = "executing"
    /\ LET id == optimisticFirstTaskState.taskId
       IN  /\ taskResults' = (id :> result) @@ taskResults
           /\ IF result = Falsy
              THEN /\ packets' = packets (+) SetToBag({Packet(id, "error", "warn")})
                   /\ optimisticFirstTaskState' =
                          [optimisticFirstTaskState EXCEPT !.firstTaskState = "error"]
              ELSE /\ packets' = packets (+) SetToBag({Packet(id, "done", "none")})
                   /\ optimisticFirstTaskState' =
                          [optimisticFirstTaskState EXCEPT !.firstTaskState = "done"]
    /\ firstTaskRun' = "returned"
    /\ UNCHANGED <<pc, initDAG, isDonePlanning, dag, toDoNodes, completedTasks, aborted,
                   inFlight, dispatched, completions, plannerCalls, planGraph,
                   fatalFailure>>
    /\ UNCHANGED <<teVars, pkVars>>

(* lines 159-163: executeTask of the first task threw *)
FirstTaskThrows(severity) ==
    /\ Suspended
    /\ firstTaskRun = "executing"
    /\ fatalFailure' = (fatalFailure \/ severity = "fatal")
    /\ packets' = packets (+) SetToBag({Packet(optimisticFirstTaskState.taskId, "error", "warn")})
    /\ optimisticFirstTaskState' = [optimisticFirstTaskState EXCEPT !.firstTaskState = "error"]
    /\ firstTaskRun' = "returned"
    /\ UNCHANGED <<pc, initDAG, isDonePlanning, dag, toDoNodes, completedTasks, taskResults,
                   aborted, inFlight, dispatched, completions, plannerCalls, planGraph>>
    /\ UNCHANGED <<teVars, pkVars>>

(* What planTasks may resolve with, given the first task it reported *)
PlannerCanReturn(g) ==
    LET id == optimisticFirstTaskState.taskId
    IN  id # NoTask => id \in Range(findNodesWithNoIncomingEdges(g))

(* lines 199-228: planTasks resolved; hook-up, summary packet, toDoNodes *)
PlanDone(g) ==
    /\ pc = "planning"
    /\ PlannerCanReturn(g)
    /\ dag' = HookupRoot(g)
    /\ packets' = packets (+) SetToBag({Packet(rootPlanId, "done", "none")})
    /\ isDonePlanning' = TRUE
    /\ toDoNodes' = Iota(Len(g.nodes) + 1)
    /\ planGraph' = <<g>>
    /\ pc' = "loop"
    /\ UNCHANGED <<initDAG, completedTasks, taskResults, optimisticFirstTaskState,
                   firstTaskRun, aborted, inFlight, dispatched, completions, plannerCalls,
                   fatalFailure>>
    /\ UNCHANGED <<teVars, pkVars>>

PlanFailurePacket_Warn == Packet(rootPlanId, "error", "warn")

(* line 208 *)
PlanFailurePacket == Packet(rootPlanId, "error", "fatal")

(* lines 206-213: planTasks rejected *)
PlanFail ==
    /\ pc = "planning"
    /\ packets' = packets (+) SetToBag({PlanFailurePacket})
    /\ pc' = "planError"
    /\ UNCHANGED <<initDAG, isDonePlanning, dag, toDoNodes, completedTasks, taskResults,
                   optimisticFirstTaskState, firstTaskRun, aborted, inFlight, dispatched,
                   completions, plannerCalls, planGraph,
                   fatalFailure>>
    /\ UNCHANGED <<teVars, pkVars>>

(* lines 230, 289-292: the while condition fails; the outcome is returned *)
LoopExit ==
    /\ pc = "loop"
    /\ isGoalReached(dag, completedTasks)
    /\ pc' = "done"
    /\ UNCHANGED <<initDAG, isDonePlanning, dag, toDoNodes, completedTasks, taskResults,
                   optimisticFirstTaskState, firstTaskRun, aborted, inFlight, packets,
                   dispatched, completions, plannerCalls, planGraph,
                   fatalFailure>>
    /\ UNCHANGED <<teVars, pkVars>>

(* line 231 *)
LoopAbort ==
    /\ pc = "loop"
    /\ ~isGoalReached(dag, completedTasks)
    /\ SignalAborted
    /\ pc' = "aborted"
    /\ UNCHANGED <<initDAG, isDonePlanning, dag, toDoNodes, completedTasks, taskResults,
                   optimisticFirstTaskState, firstTaskRun, aborted, inFlight, packets,
                   dispatched, completions, plannerCalls, planGraph,
                   fatalFailure>>
    /\ UNCHANGED <<teVars, pkVars>>

(* lines 234-241 *)
LoopSleep ==
    /\ pc = "loop"
    /\ ~isGoalReached(dag, completedTasks)
    /\ ~SignalAborted
    /\ NothingToDispatchYet
    /\ pc' = "sleeping"
    /\ UNCHANGED <<initDAG, isDonePlanning, dag, toDoNodes, completedTasks, taskResults,
                   optimisticFirstTaskState, firstTaskRun, aborted, inFlight, packets,
                   dispatched, completions, plannerCalls, planGraph,
                   fatalFailure>>
    /\ UNCHANGED <<teVars, pkVars>>

(* sleep(1000) resolved *)
Wake ==
    /\ pc = "sleeping"
    /\ pc' = "loop"
    /\ UNCHANGED <<initDAG, isDonePlanning, dag, toDoNodes, completedTasks, taskResults,
                   optimisticFirstTaskState, firstTaskRun, aborted, inFlight, packets,
                   dispatched, completions, plannerCalls, planGraph,
                   fatalFailure>>
    /\ UNCHANGED <<teVars, pkVars>>

(* lines 243-259: no task to pop *)
LoopThrow ==
    /\ pc = "loop"
    /\ ~isGoalReached(dag, completedTasks)
    /\ ~SignalAborted
    /\ ~NothingToDispatchYet
    /\ Len(pendingCurrentDagLayerTasks) = 0
    /\ pc' = IF Len(pendingTasks) = 0 /\ Len(toDoNodes) = 0 THEN "deadlock" ELSE "noTask"
    /\ UNCHANGED <<initDAG, isDonePlanning, dag, toDoNodes, completedTasks, taskResults,
                   optimisticFirstTaskState, firstTaskRun, aborted, inFlight, packets,
                   dispatched, completions, plannerCalls, planGraph,
                   fatalFailure>>
    /\ UNCHANGED <<teVars, pkVars>>

(* lines 243-286: pop the first ready task, remove it from toDoNodes and
   start its unit, which runs up to its await of executeTask *)
LoopDispatch ==
    /\ pc = "loop"
    /\ ~isGoalReached(dag, completedTasks)
    /\ ~SignalAborted
    /\ ~NothingToDispatchYet
    /\ Len(pendingCurrentDagLayerTasks) > 0
    /\ LET task == Head(pendingCurrentDagLayerTasks)
       IN  /\ toDoNodes' = Splice(toDoNodes, task)
           /\ dag' = DagAfterSplice(task)
           /\ inFlight' = inFlight \cup {task}
           /\ dispatched' = Append(dispatched, task)
    /\ UNCHANGED <<pc, initDAG, isDonePlanning, completedTasks, taskResults,
                   optimisticFirstTaskState, firstTaskRun, aborted, packets, completions,
                   plannerCalls, planGraph,
                   fatalFailure>>
    /\ UNCHANGED <<teVars, pkVars>>

(* line 281: the packet of the catch of a dispatched unit *)
TaskFailurePacket(id) == Packet(id, "error", "warn")

SignalAfterTaskFailure_Aborts == TRUE

(* lines 280-283: the catch leaves the abort signal alone *)
SignalAfterTaskFailure == aborted

(* lines 284-285: executeTask of a dispatched unit resolved *)
TaskResolves(task, result) ==
    /\ Suspended
    /\ task \in inFlight
    /\ taskResults' = (IdOf(task) :> result) @@ taskResults
    /\ completedTasks' = CompleteTask(IdOf(task))
    /\ inFlight' = inFlight \ {task}
    /\ completions' = Append(completions, task)
    /\ UNCHANGED <<pc, initDAG, isDonePlanning, dag, toDoNodes, optimisticFirstTaskState,
                   firstTaskRun, aborted, packets, dispatched, plannerCalls, planGraph,
                   fatalFailure>>
    /\ UNCHANGED <<teVars, pkVars>>

(* lines 280-283: executeTask of a dispatched unit threw *)
TaskThrows(task, severity) ==
    /\ Suspended
    /\ task \in inFlight
    /\ packets' = packets (+) SetToBag({TaskFailurePacket(IdOf(task))})
    /\ aborted' = SignalAfterTaskFailure
    /\ inFlight' = inFlight \ {task}
    /\ fatalFailure' = (fatalFailure \/ severity = "fatal")
    /\ UNCHANGED <<pc, initDAG, isDonePlanning, dag, toDoNodes, completedTasks, taskResults,
                   optimisticFirstTaskState, firstTaskRun, dispatched, completions,
                   plannerCalls, planGraph>>
    /\ UNCHANGED <<teVars, pkVars>>

(* the owner of the AbortController calls abort() *)
Abort ==
    /\ pc = "start" \/ Suspended
    /\ ~aborted
    /\ aborted' = TRUE
    /\ UNCHANGED <<pc, initDAG, isDonePlanning, dag, toDoNodes, completedTasks, taskResults,
                   optimisticFirstTaskState, firstTaskRun, inFlight, packets, dispatched,
                   completions, plannerCalls, planGraph,
                   fatalFailure>>
    /\ UNCHANGED <<teVars, pkVars>>

-----------------------------------------------------------------------------
(* TaskExecutor.startFirstTask *)

InitTE ==
    /\ tePc = "start"
    /\ teTask \in NodeIds
    /\ teCompletedTasks \in SUBSET ({rootPlanId} \cup NodeIds)
    /\ teAborted \in BOOLEAN
    /\ tePackets = {}
    /\ teResolved = 0
    /\ teRejected = 0

IdleTE ==
    /\ tePc = "idle"
    /\ teTask = NoTask
    /\ teCompletedTasks = {}
    /\ teAborted = FALSE
    /\ tePackets = {}
    /\ teResolved = 0
    /\ teRejected = 0

rejectFirstTask_NotCalled == teRejected

(* lines 87, 92: this.rejectFirstTask(...) *)
rejectFirstTask == teRejected + 1

(* line 65: this.resolveFirstTask(result) *)
resolveFirstTask == teResolved + 1

(* lines 35-41, 90-94: up to the await of executeTask, or the aborted branch *)
TEStartFirstTask ==
    /\ tePc = "start"
    /\ teCompletedTasks' = teCompletedTasks \cup {teTask}
    /\ IF ~teAborted
       THEN /\ tePc' = "executing"
            /\ UNCHANGED <<teRejected, teAborted>>
       ELSE /\ teRejected' = rejectFirstTask
            /\ teAborted' = TRUE
            /\ tePc' = "returned"
    /\ UNCHANGED <<teTask, tePackets, teResolved>>
    /\ UNCHANGED <<runVars, pkVars>>

(* lines 58-67: executeTask resolved with a packet *)
TEResolves(result) ==
    /\ tePc = "executing"
    /\ teResolved' = resolveFirstTask
    /\ tePackets' = tePackets \cup {Packet(teTask, result.type, result.severity)}
    /\ tePc' = "returned"
    /\ UNCHANGED <<teTask, teCompletedTasks, teAborted, teRejected>>
    /\ UNCHANGED <<runVars, pkVars>>

(* lines 77-89: executeTask threw *)
TEThrows ==
    /\ tePc = "executing"
    /\ tePackets' = tePackets \cup {Packet(teTask, "error", "warn")}
    /\ teRejected' = rejectFirstTask
    /\ teAborted' = TRUE
    /\ tePc' = "returned"
    /\ UNCHANGED <<teTask, teCompletedTasks, teResolved>>
    /\ UNCHANGED <<runVars, pkVars>>

TEHumanInputRequests == {p \in tePackets : p.type = "requestHumanInput"}

(* line 60: executeTask is given injectAgentPacket; while it runs it asks for
   human input through it *)
TERequestsHumanInput ==
    /\ tePc = "executing"
    /\ TEHumanInputRequests = {}
    /\ tePackets' = tePackets \cup {Packet(teTask, "requestHumanInput", "none")}
    /\ UNCHANGED <<tePc, teTask, teCompletedTasks, teAborted, teResolved, teRejected>>
    /\ UNCHANGED <<runVars, pkVars>>

(* the owner of the AbortController calls abort() while executeTask is pending *)
TEAbort ==
    /\ tePc = "executing"
    /\ ~teAborted
    /\ teAborted' = TRUE
    /\ UNCHANGED <<tePc, teTask, teCompletedTasks, tePackets, teResolved, teRejected>>
    /\ UNCHANGED <<runVars, pkVars>>

-----------------------------------------------------------------------------
(* AgentPacket.ts and mapPacketTypeToStatus *)

(* `undefined` *)
Undefined == "undefined"

(* AgentPacket.ts lines 10-25: AgentPacketType *)
AgentPacketTypes ==
    AgentPacketFinishedTypes
    \cup {"handleLLMStart", "t", "handleLLMEnd", "handleChainEnd", "handleChainStart",
          "handleToolEnd", "handleToolStart", "handleAgentAction", "handleText",
          "requestHumanInput", "starting", "working", "idle", "handleToolError"}

mapPacketTypeToStatus_HumanInputWorking(packetType) ==
    IF packetType = "requestHumanInput" THEN "working" ELSE "idle"

(* lines 4-45: the switch; a type that is no case falls out of it *)
mapPacketTypeToStatus(packetType) ==
    CASE packetType \in {"done", "handleAgentEnd", "handleChainEnd"} -> "done"
      [] packetType \in {"error", "handleLLMError", "handleChainError", "handleToolError",
                         "handleAgentError"} -> "error"
      [] packetType \in {"working", "t", "handleLLMStart", "handleChainStart",
                         "handleToolStart", "handleAgentAction", "handleRetrieverError",
                         "handleText", "handleToolEnd", "starting", "handleLLMEnd",
                         "handleRetrieverStart", "handleRetrieverEnd", "handleChatModelEnd",
                         "handleChatModelStart"} -> "working"
      [] packetType = "requestHumanInput" -> "wait"
      [] packetType \in {"idle", Undefined} -> "idle"
      [] OTHER -> Undefined

(* AgentPacket.ts lines 45-47 *)
isAgentPacketFinishedType(type) == type \in AgentPacketFinishedTypes

(* AgentPacket.ts lines 56-60: the packet given when none is found (its
   error message is left out) *)
NoResultPacket == [type |-> "error", severity |-> "fatal"]

findFinishPacket_First(pkts) ==
    LET passing == {i \in 1..Len(pkts) : isAgentPacketFinishedType(pkts[i].type)}
    IN  IF passing = {} THEN NoResultPacket
        ELSE pkts[CHOOSE i \in passing : \A j \in passing : i <= j]

(* AgentPacket.ts lines 49-63: findLast gives the packet of highest index
   that passes the test, ?? the other packet when there is none *)
findFinishPacket(pkts) ==
    LET passing == {i \in 1..Len(pkts) : isAgentPacketFinishedType(pkts[i].type)}
    IN  IF passing = {} THEN NoResultPacket
        ELSE pkts[CHOOSE i \in passing : \A j \in passing : j <= i]

(* The packets of a task: one of each type, error packets of each severity *)
TaskPackets ==
    {[type |-> t, severity |-> "none"] : t \in AgentPacketTypes \ {"error"}}
    \cup {[type |-> "error", severity |-> sev] : sev \in Severities}

MaxPackets == 2

RECURSIVE SeqsUpTo(_, _)
SeqsUpTo(S, n) ==
    IF n = 0 THEN {<<>>}
    ELSE LET shorter == SeqsUpTo(S, n - 1)
         IN  shorter \cup {Append(q, x) : q \in shorter, x \in S}

(* an LLM run that streams two tokens and ends *)
StreamedAgentRun ==
    <<[type |-> "handleLLMStart", severity |-> "none"], [type |-> "t", severity |-> "none"],
      [type |-> "t", severity |-> "none"], [type |-> "handleAgentEnd", severity |-> "none"]>>

PacketSeqs == SeqsUpTo(TaskPackets, MaxPackets) \cup {StreamedAgentRun}

InitPK ==
    /\ pkPc = "start"
    /\ pkPackets \in PacketSeqs
    /\ pkStatuses = <<>>
    /\ pkFinish = Undefined
    /\ pkType = Undefined
    /\ pkStatus = Undefined

IdlePK ==
    /\ pkPc = "idle"
    /\ pkPackets = <<>>
    /\ pkStatuses = <<>>
    /\ pkFinish = Undefined
    /\ pkType = Undefined
    /\ pkStatus = Undefined

(* the packets of the task are mapped to statuses, one by one *)
MapPackets ==
    /\ pkPc = "start"
    /\ pkStatuses' = [i \in 1..Len(pkPackets) |-> mapPacketTypeToStatus(pkPackets[i].type)]
    /\ pkPc' = "mapped"
    /\ UNCHANGED <<pkPackets, pkFinish, pkType, pkStatus>>
    /\ UNCHANGED <<runVars, teVars>>

(* the finish packet of the task is looked up *)
FindFinishPacket ==
    /\ pkPc = "mapped"
    /\ pkFinish' = findFinishPacket(pkPackets)
    /\ pkPc' = "found"
    /\ UNCHANGED <<pkPackets, pkStatuses, pkType, pkStatus>>
    /\ UNCHANGED <<runVars, teVars>>

(* a packet type, or none, is mapped to a status *)
MapPacketType(packetType) ==
    /\ pkPc = "found"
    /\ pkType' = packetType
    /\ pkStatus' = mapPacketTypeToStatus(packetType)
    /\ pkPc' = "end"
    /\ UNCHANGED <<pkPackets, pkStatuses, pkFinish>>
    /\ UNCHANGED <<runVars, teVars>>

-----------------------------------------------------------------------------
(* Specifications *)

Init == InitRun /\ IdleTE /\ IdlePK

Next ==
    \/ Start
    \/ \E id \in NodeIds : StartFirstTask(id)
    \/ \E result \in {Truthy, Falsy} : FirstTaskResolves(result)
    \/ \E severity \in Severities : FirstTaskThrows(severity)
    \/ \E g \in PlanGraphs : PlanDone(g)
    \/ PlanFail
    \/ LoopExit
    \/ LoopAbort
    \/ LoopSleep
    \/ Wake
    \/ LoopThrow
    \/ LoopDispatch
    \/ \E task \in inFlight, result \in {Truthy, Falsy} : TaskResolves(task, result)
    \/ \E task \in inFlight, severity \in Severities : TaskThrows(task, severity)
    \/ Abort

Spec == Init /\ [][Next]_vars

TEInit == IdleRun /\ InitTE /\ IdlePK

TENext ==
    \/ TEStartFirstTask
    \/ \E result \in ResultPackets : TEResolves(result)
    \/ TEThrows
    \/ TEAbort
    \/ TERequestsHumanInput

TaskExecutorSpec == TEInit /\ [][TENext]_vars

PKInit == IdleRun /\ IdleTE /\ InitPK

PKNext ==
    \/ MapPackets
    \/ FindFinishPacket
    \/ \E packetType \in AgentPacketTypes \cup {Undefined} : MapPacketType(packetType)

PacketSpec == PKInit /\ [][PKNext]_vars

(* run() executes its synchronous stretches and its timers fire *)
LoopStep == LoopExit \/ LoopAbort \/ LoopSleep \/ LoopThrow \/ LoopDispatch

FairSpec == Spec /\ WF_vars(LoopStep) /\ WF_vars(Wake)

-----------------------------------------------------------------------------
(* Vocabulary of the properties *)

AllNodesCompleted == Range(dag.nodes) \subseteq completedTasks

NewlyDispatched == {dispatched'[k] : k \in (Len(dispatched) + 1)..Len(dispatched')}

DispatchedIds == {IdOf(dispatched[k]) : k \in 1..Len(dispatched)}

Predecessors(id) == {e.sId : e \in {x \in dag.edges : x.tId = id}}

LoopRunning == pc \in {"loop", "sleeping"}

RunFailed == pc \in {"planError", "aborted", "noTask", "deadlock"}

FirstTaskId == optimisticFirstTaskState.taskId

(* tasks whose unit ends in this step without a completion: executeTask threw *)
NewlyFailed == (inFlight \ inFlight') \ Range(completions')

FailedTasks == Range(dispatched) \ (inFlight \cup Range(completions))

NewlyCompleted == {completions'[k] : k \in (Len(completions) + 1)..Len(completions')}

Successors(d, S) == {e.tId : e \in {x \in d.edges : x.sId \in S}}

RECURSIVE ReachableFrom(_, _)
ReachableFrom(d, S) ==
    LET T == S \cup Successors(d, S)
    IN  IF T = S THEN S ELSE ReachableFrom(d, T)

HasCycle(d) == \E e \in d.edges : e.sId \in ReachableFrom(d, {e.tId})

HasDuplicateNodeId(d) == \E i, j \in 1..Len(d.nodes) : i # j /\ d.nodes[i] = d.nodes[j]

HasDanglingEdge(d) ==
    \E e \in d.edges : e.sId \notin Range(d.nodes) \/ e.tId \notin Range(d.nodes)

(* the graph without the edges that leave the root: the hook-up adds only
   such edges and the planner's edges are between its own ids *)
WithoutRootEdges(d) == [nodes |-> d.nodes, edges |-> {e \in d.edges : e.sId # rootPlanId}]

HookedUp == planGraph # <<>>

FatalPackets == {p \in BagToSet(packets) : p.severity = "fatal"}

-----------------------------------------------------------------------------
(* C1: every step of the scheduling loop that dispatches a node does so in a
   state where the source of every edge targeting the node's id is in
   completedTasks. *)
C1_DispatchOnlyWhenPredecessorsCompleted ==
    [][\A task \in NewlyDispatched : Predecessors(IdOf(task)) \subseteq completedTasks]_vars

(* a node with a predecessor other than the root has been dispatched *)
C1_Witness ==
    \E k \in 1..Len(dispatched) : Predecessors(IdOf(dispatched[k])) \ {rootPlanId} # {}

(* C2: no node id is dispatched twice by the scheduling loop, and no two
   completions write the same key of completedTasks/taskResults. *)
C2_EachIdDispatchedAndCompletedOnce ==
    /\ \A i, j \in 1..Len(dispatched) :
           i # j => IdOf(dispatched[i]) # IdOf(dispatched[j])
    /\ \A i, j \in 1..Len(completions) :
           i # j => IdOf(completions[i]) # IdOf(completions[j])

(* C3: a step of the scheduling loop never dispatches the node id that
   startFirstTask claimed, whatever the state of the optimistic attempt. *)
C3_FirstTaskNeverRedispatched ==
    [][\A task \in NewlyDispatched : IdOf(task) # FirstTaskId]_vars

(* the optimistic attempt on a node of the graph failed and the loop went
   on to dispatch another node *)
C3_Witness ==
    /\ optimisticFirstTaskState.firstTaskState = "error"
    /\ FirstTaskId \in Range(dag.nodes)
    /\ Len(dispatched) > 0

(* C4: a node whose dispatched unit has ended (its executeTask resolved or
   threw) is in completedTasks. *)
C4_FailedTaskIsCompleted ==
    \A k \in 1..Len(dispatched) :
        dispatched[k] \notin inFlight => IdOf(dispatched[k]) \in completedTasks

(* C5: an iteration that finds no ready node, while nodes are incomplete and
   a dispatched unit is in flight, goes to sleep. *)
C5_BacksOffWhileInFlight ==
    [][(/\ pc = "loop"
        /\ ~AllNodesCompleted
        /\ ~aborted
        /\ Len(pendingCurrentDagLayerTasks) = 0
        /\ inFlight # {}) => pc' = "sleeping"]_vars

(* C6: when a completion has made a node of the to-do list ready and the
   signal is not aborted, the scheduling loop is still running, so that it
   can dispatch the node. *)
C6_ReadyNodeStillScheduled ==
    (/\ ~aborted
     /\ Len(completions) > 0
     /\ Len(pendingCurrentDagLayerTasks) > 0) => LoopRunning

(* C7: an iteration that finds no ready node, while nodes are incomplete and
   nothing is in flight, ends the run with an error. *)
C7_DeadlockIsFatal ==
    [][(/\ pc = "loop"
        /\ ~AllNodesCompleted
        /\ Len(pendingCurrentDagLayerTasks) = 0
        /\ inFlight = {}
        /\ firstTaskRun # "executing") => pc' \in {"noTask", "deadlock", "aborted"}]_vars

(* C8: the outcome is returned only when every node id of the graph is in
   completedTasks, no task is dispatched in such a state, and a running loop
   in such a state returns the outcome. *)
C8_TerminatesExactlyAtGoal ==
    /\ [](pc = "done" => AllNodesCompleted)
    /\ [][AllNodesCompleted => dispatched' = dispatched]_vars
    /\ (LoopRunning /\ AllNodesCompleted) ~> (pc = "done")

(* the loop dispatched a node and returned the outcome *)
C8_Witness == pc = "done" /\ Len(dispatched) > 0 /\ AllNodesCompleted

(* C9: no task is dispatched once the signal is aborted; an iteration that
   starts with the signal aborted and a node incomplete throws; and a running
   loop does not outlive an aborted signal. *)
C9_AbortStopsDispatch ==
    /\ [][aborted => dispatched' = dispatched]_vars
    /\ [][(pc = "loop" /\ aborted /\ ~AllNodesCompleted) => pc' = "aborted"]_vars
    /\ (LoopRunning /\ aborted) ~> (pc \in {"aborted", "done"})

(* the run threw on the abort check with a ready node left undispatched *)
C9_Witness == pc = "aborted" /\ Len(pendingCurrentDagLayerTasks) > 0

(* C10: a failure of the optimistic first task (a call of rejectFirstTask
   after executeTask threw) leaves the abort signal as it was. *)
C10_FirstTaskFailureDoesNotAbort ==
    [][(tePc = "executing" /\ teRejected' > teRejected) => teAborted' = teAborted]_vars

(* C11: a step in which the unit of a dispatched task fails adds one
   warn-severity error packet on the task's node and changes neither the abort
   signal nor anything the scheduling loop reads (its position, the graph,
   toDoNodes, completedTasks, the state of the first task), so the failure
   alone takes the run to no abort and to no error; and the run ends on the
   abort check only with the signal aborted. *)
C11_TaskFailureDoesNotAbort ==
    /\ [][\A task \in NewlyFailed :
             /\ CopiesIn(Packet(IdOf(task), "error", "warn"), packets')
                    = CopiesIn(Packet(IdOf(task), "error", "warn"), packets) + 1
             /\ aborted' = aborted
             /\ UNCHANGED <<pc, dag, toDoNodes, completedTasks, optimisticFirstTaskState>>]_vars
    /\ [](pc = "aborted" => aborted)

(* a dispatched task has failed and the loop is running, the signal not
   aborted *)
C11_Witness == FailedTasks # {} /\ LoopRunning /\ ~aborted

(* C12: once executeTask has failed with fatal severity, the run does not
   return an outcome. *)
C12_FatalFailureEndsRun == fatalFailure => pc # "done"

(* C13: a run started with isDonePlanning true and an initial graph that has
   at least one node leaves its start for the scheduling loop on that graph,
   the planner not being called. *)
C13_DoneGraphSkipsPlanning ==
    [][(/\ pc = "start"
        /\ pc' # "start"
        /\ isDonePlanning
        /\ initDAG.nodes # <<>>) => (/\ pc' = "loop"
                                     /\ dag' = initDAG
                                     /\ plannerCalls' = plannerCalls)]_vars

(* C14: once planTasks has resolved, the execution graph is the root followed
   by the plan's nodes, with the plan's edges and one edge from the root to
   each plan node that no plan edge targets; the root is its only node without
   an incoming edge; and the graph is not changed again. *)
C14_RootHookedUpOnce ==
    /\ [](HookedUp =>
            LET g == planGraph[1]
                noIncoming == {n \in Range(g.nodes) : \A e \in g.edges : e.tId # n}
            IN  /\ dag.nodes = <<rootPlanId>> \o g.nodes
                /\ dag.edges = g.edges \cup {[sId |-> rootPlanId, tId |-> n] : n \in noIncoming}
                /\ \A i \in 1..Len(dag.nodes) :
                       (\A e \in dag.edges : e.tId # dag.nodes[i]) <=> i = 1)
    /\ [][HookedUp => dag' = dag]_vars

(* C15: once planTasks has resolved and the root is hooked up, every node of
   the execution graph is reachable from the root along edges. *)
C15_AllNodesReachableFromRoot ==
    HookedUp => Range(dag.nodes) \subseteq ReachableFrom(dag, {rootPlanId})

(* C16: a run whose planner failed has sent exactly one packet of fatal
   severity, an error packet on the root node, has called the planner once,
   has dispatched nothing, and stays as it is; no other run sends a fatal
   packet. *)
C16_PlannerFailureIsTerminal ==
    /\ [](pc = "planError" =>
            /\ FatalPackets = {Packet(rootPlanId, "error", "fatal")}
            /\ CopiesIn(Packet(rootPlanId, "error", "fatal"), packets) = 1
            /\ plannerCalls = 1
            /\ dispatched = <<>>)
    /\ [](pc # "planError" => FatalPackets = {})
    /\ [][pc = "planError" =>
             /\ pc' = "planError"
             /\ plannerCalls' = plannerCalls
             /\ dispatched' = dispatched
             /\ FatalPackets' = FatalPackets]_vars

(* the planner failed after it had started the optimistic first task *)
C16_Witness == pc = "planError" /\ optimisticFirstTaskState.firstTaskState # "not started"

(* C17: with a cycle among the edges of the execution graph, no task has
   been dispatched and the run has not returned an outcome; stated for the
   graphs whose ids are unique and whose edges all join nodes, where the
   cycle is the only defect. *)
C17_CyclicGraphNeverDispatched ==
    (/\ HasCycle(WithoutRootEdges(dag))
     /\ ~HasDuplicateNodeId(dag)
     /\ ~HasDanglingEdge(dag)) => (Len(dispatched) = 0 /\ pc # "done")

(* C18: with a node id that occurs twice in the execution graph, or an edge
   one of whose ends is no node of it, no task has been dispatched and the run
   has not returned an outcome. *)
C18_MalformedGraphNeverDispatched ==
    (HasDuplicateNodeId(dag) \/ HasDanglingEdge(dag)) => (Len(dispatched) = 0 /\ pc # "done")

(* C19: completedTasks is {rootPlanId} when run() starts, and no step removes
   an id from it. *)
C19_CompletedTasksOnlyGrows ==
    /\ [](pc = "start" => completedTasks = {rootPlanId})
    /\ [][completedTasks \subseteq completedTasks']_vars

(* the first task's id and the id of a task completed by the loop are both
   in completedTasks, with the root's *)
C19_Witness ==
    /\ FirstTaskId \in completedTasks
    /\ \E k \in 1..Len(completions) : IdOf(completions[k]) # FirstTaskId
    /\ rootPlanId \in completedTasks

(* C20: no step changes or removes an entry of taskResults, and a completion
   of the scheduling loop writes an id that has no entry yet. *)
C20_TaskResultsWriteOnce ==
    /\ [][\A id \in DOMAIN taskResults :
             id \in DOMAIN taskResults' /\ taskResults'[id] = taskResults[id]]_vars
    /\ [][\A task \in NewlyCompleted : IdOf(task) \notin DOMAIN taskResults]_vars

(* C21: from the moment run() enters the scheduling loop no step changes the
   execution graph: not a dispatch, not a completion, not a failure. *)
C21_GraphFrozenWhileScheduling ==
    [][pc \notin {"start", "planning"} => dag' = dag]_vars

(* the loop has dispatched tasks, one of which completed and one failed *)
C21_Witness == Len(completions) > 0 /\ FailedTasks # {}

FinishingIndexes == {i \in 1..Len(pkPackets) : pkPackets[i].type \in AgentPacketFinishedTypes}

FinishPacketFound == pkPc \in {"found", "end"}

(* C22: the result of findFinishPacket is the packet at the highest index
   whose type is a finished type; it is an error packet of severity fatal when
   the sequence has no such packet; and its type is always a finished type. *)
C22_FinishPacketIsLastFinished ==
    FinishPacketFound =>
        /\ \A i \in FinishingIndexes :
               (\A j \in FinishingIndexes : j <= i) => pkFinish = pkPackets[i]
        /\ FinishingIndexes = {} => pkFinish = [type |-> "error", severity |-> "fatal"]
        /\ pkFinish.type \in AgentPacketFinishedTypes

(* the sequence holds two finished packets that differ *)
C22_Witness ==
    /\ FinishPacketFound
    /\ Cardinality(FinishingIndexes) = 2
    /\ \A i, j \in FinishingIndexes : i < j => pkPackets[i] # pkPackets[j]

(* the sequence holds no finished packet: handleToolStart alone *)
C22_WitnessNone ==
    FinishPacketFound /\ pkPackets = <<[type |-> "handleToolStart", severity |-> "none"]>>

TerminalSuccessTypes == {"done", "handleAgentEnd", "handleChainEnd"}

TerminalFailureTypes ==
    {"error", "handleLLMError", "handleChainError", "handleToolError", "handleAgentError",
     "handleRetrieverError"}

(* the table of the Status Mapper *)
StatusTable(packetType) ==
    IF packetType \in TerminalSuccessTypes THEN "done"
    ELSE IF packetType \in TerminalFailureTypes THEN "error"
    ELSE IF packetType = "requestHumanInput" THEN "wait"
    ELSE IF packetType \in {"idle", Undefined} THEN "idle"
    ELSE "working"

(* C23: mapPacketTypeToStatus gives every packet type, and the absent type,
   one of the five statuses, the one of the table. *)
C23_StatusMapperFollowsTable ==
    pkPc = "end" =>
        /\ pkStatus \in {"idle", "working", "wait", "done", "error"}
        /\ pkStatus = StatusTable(pkType)

(* C24: a packet's type is a finished type exactly when the packet's status
   is done or error. *)
C24_FinishedIffDoneOrError ==
    pkPc \in {"mapped", "found", "end"} =>
        \A i \in 1..Len(pkPackets) :
            isAgentPacketFinishedType(pkPackets[i].type) <=> pkStatuses[i] \in {"done", "error"}

(* C25: the packets handleLLMStart, t, t, handleAgentEnd have the statuses
   working, working, working, done and the handleAgentEnd packet as their
   finish packet; and the finish packet of a sequence that holds a finished
   packet has the status done or error. *)
C25_FinishPacketStatusIsTerminal ==
    /\ (pkPc \in {"mapped", "found", "end"} /\ pkPackets = StreamedAgentRun) =>
           pkStatuses = <<"working", "working", "working", "done">>
    /\ (FinishPacketFound /\ pkPackets = StreamedAgentRun) =>
           pkFinish = [type |-> "handleAgentEnd", severity |-> "none"]
    /\ (FinishPacketFound /\ FinishingIndexes # {}) =>
           mapPacketTypeToStatus(pkFinish.type) \in {"done", "error"}

(* C26: requestHumanInput maps to the status wait and is no finished type,
   and a step in which such a packet is sent for a node leaves completedTasks
   as it is. *)
C26_HumanInputRequestDoesNotComplete ==
    /\ [](mapPacketTypeToStatus("requestHumanInput") = "wait")
    /\ [](~isAgentPacketFinishedType("requestHumanInput"))
    /\ [][TEHumanInputRequests' # TEHumanInputRequests =>
             teCompletedTasks' = teCompletedTasks]_vars

(* executeTask has asked for human input for its task and is still running *)
C26_Witness ==
    /\ tePc = "executing"
    /\ Packet(teTask, "requestHumanInput", "none") \in TEHumanInputRequests

WellFormedAcyclic(d) == ~HasCycle(d) /\ ~HasDuplicateNodeId(d) /\ ~HasDanglingEdge(d)

(* C27: the number of tasks dispatched by the scheduling loop whose unit has
   not ended is at most the configured maximum of concurrent tasks; stated
   for the acyclic graphs with unique ids and no dangling edge. *)
C27_InFlightWithinMaxConcurrency ==
    WellFormedAcyclic(dag) => Cardinality(inFlight) <= ExecuteMaxConcurrency

(* the planner resolved with one node, not the root's id, and no edge *)
SingleNodePlan ==
    /\ HookedUp
    /\ Len(planGraph[1].nodes) = 1
    /\ planGraph[1].nodes[1] # rootPlanId
    /\ planGraph[1].edges = {}

FirstTaskStarts == IF optimisticFirstTaskState.firstTaskState = "not started" THEN 0 ELSE 1

(* C28: on a plan of one node and no edge the node is handed to executeTask
   at most once, the unit of that one dispatch having ended the node is in
   completedTasks (so that the loop returns the outcome), the run does not
   end with a scheduling error, and an outcome is returned only with the node
   in completedTasks and executed once. *)
C28_SingleNodePlanCompletes ==
    SingleNodePlan =>
        /\ Len(dispatched) + FirstTaskStarts <= 1
        /\ (Len(dispatched) = 1 /\ inFlight = {}) => AllNodesCompleted
        /\ pc \notin {"noTask", "deadlock"}
        /\ pc = "done" => (AllNodesCompleted /\ Len(dispatched) + FirstTaskStarts = 1)

(* C29: a step taken with the signal aborted starts no executeTask: neither
   that of the first task nor that of a unit of the loop. *)
C29_NoExecuteTaskOnceAborted ==
    [][aborted => (/\ inFlight' \subseteq inFlight
                   /\ (firstTaskRun' = "executing" => firstTaskRun = "executing"))]_vars

(* startFirstTask was called with the signal aborted and returned without
   executeTask: no result and no packet for its task *)
C29_Witness ==
    /\ aborted
    /\ optimisticFirstTaskState.firstTaskState = "error"
    /\ FirstTaskId \notin DOMAIN taskResults
    /\ \A p \in BagToSet(packets) : p.node # FirstTaskId

(* C30: on an acyclic graph with unique ids and no dangling edge, as long as
   no task has failed and the signal is not aborted, the scheduling loop has
   not ended the run with an error. *)
C30_SuccessfulRunNeverFails ==
    (/\ pc \notin {"start", "planning"}
     /\ WellFormedAcyclic(dag)
     /\ ~aborted
     /\ FailedTasks = {}
     /\ optimisticFirstTaskState.firstTaskState # "error") => pc \notin {"noTask", "deadlock"}

(* C31: when the run has returned its outcome no task is executing any more:
   neither the optimistic first task nor a task the loop dispatched. *)
C31_NoTaskExecutingAtOutcome ==
    pc = "done" => (firstTaskRun # "executing" /\ inFlight = {})

(* C32: a step taken while the optimistic first task is in state "started"
   dispatches no task. *)
C32_NoDispatchWhileFirstTaskStarted ==
    [][optimisticFirstTaskState.firstTaskState = "started" => dispatched' = dispatched]_vars

(* the loop sleeps on a ready node because the first task is still executing *)
C32_Witness ==
    /\ pc = "sleeping"
    /\ optimisticFirstTaskState.firstTaskState = "started"
    /\ Len(pendingCurrentDagLayerTasks) > 0

(* C33: every step of the scheduling loop that dispatches a node does so in a
   state where every predecessor of the node other than the root has an entry
   in taskResults. *)
C33_DispatchOnlyWhenPredecessorsHaveResults ==
    [][\A task \in NewlyDispatched :
          Predecessors(IdOf(task)) \ {rootPlanId} \subseteq DOMAIN taskResults]_vars

(* C34: every id with an entry in taskResults is in completedTasks. *)
C34_TaskResultsWithinCompletedTasks == DOMAIN taskResults \subseteq completedTasks

(* the first task and a dispatched task have both written their result *)
C34_Witness ==
    /\ FirstTaskId \in DOMAIN taskResults
    /\ \E k \in 1..Len(completions) : IdOf(completions[k]) \in DOMAIN taskResults \ {FirstTaskId}

(* C35: the root node is never dispatched, by position or by id, and never
   has an entry in taskResults. *)
C35_RootNeverDispatched ==
    /\ rootPlanId \notin DispatchedIds
    /\ rootPlanId \notin DOMAIN taskResults
    /\ optimisticFirstTaskState.taskId # rootPlanId

(* a finished run whose graph holds the root and tasks that were dispatched *)
C35_Witness ==
    /\ pc = "done"
    /\ rootPlanId \in Range(dag.nodes)
    /\ Cardinality(DispatchedIds) = MaxNodes

RootSummaryPacket == Packet(rootPlanId, "done", "none")

(* C36: the step that invokes the planner leaves the done-planning flag
   false; a step that sets the flag to true ends planning with the graph
   hooked up to the root and the root summary packet emitted; a step into the
   planner's failure leaves the flag false, and it stays false afterwards; and
   a step that dispatches a task starts with the flag true. *)
C36_DonePlanningFlagOrder ==
    [][/\ (plannerCalls' > plannerCalls => ~isDonePlanning')
       /\ (~isDonePlanning /\ isDonePlanning' =>
              /\ pc = "planning"
              /\ HookedUp'
              /\ dag' = HookupRoot(planGraph'[1])
              /\ BagIn(RootSummaryPacket, packets'))
       /\ (pc' = "planError" => ~isDonePlanning')
       /\ (dispatched' # dispatched => isDonePlanning)]_vars

(* a planned run has dispatched a task after the flag was set *)
C36_Witness ==
    /\ plannerCalls > 0
    /\ isDonePlanning
    /\ BagIn(RootSummaryPacket, packets)
    /\ Len(dispatched) > 0

(* C37: a call of TaskExecutor.startFirstTask that has returned has called
   exactly one of resolveFirstTask and rejectFirstTask, once; resolveFirstTask
   only with the executor's result emitted, rejectFirstTask only with the
   signal aborted; and while the call is pending neither has been called. *)
C37_FirstTaskPromiseSettledOnce ==
    /\ tePc = "returned" => teResolved + teRejected = 1
    /\ tePc \in {"start", "executing"} => teResolved + teRejected = 0
    /\ teResolved = 1 => \E r \in ResultPackets : Packet(teTask, r.type, r.severity) \in tePackets
    /\ teRejected = 1 => teAborted

(* the executor failed and the promise was rejected *)
C37_Witness ==
    /\ tePc = "returned"
    /\ teRejected = 1
    /\ Packet(teTask, "error", "warn") \in tePackets
    /\ teResolved = 0

====
